---- MODULE Spec2Model ----
(***************************************************************************)
(* Model of src/python_ref/query.py: the eco-trail loader/cache            *)
(* (load_trail_data, clear_data_cache) and the query functions built on    *)
(* it (search_trails, get_trail_by_id, list_all_trails, advanced_search,   *)
(* get_trails_by_region, get_data_statistics).                             *)
(*                                                                         *)
(* JSON / Python values are tagged records: the field k is the Python type *)
(* of the value, "absent" standing for a key that is missing from a dict.  *)
(* Strings are sequences of one-character strings so that lower(), strip() *)
(* and the substring test `in` are computed character by character.        *)
(***************************************************************************)
EXTENDS Integers, Sequences, FiniteSets, TLC

VARIABLES
    fileExists,        \* os.path.exists(DATA_FILE_PATH)
    fileContent,       \* what open()/json.load() find in the file
    fileMtime,         \* os.path.getmtime(DATA_FILE_PATH)
    _data_cache,       \* module global, None or the cached list
    _cache_timestamp,  \* module global, None or a float
    result,            \* outcome of the most recent operation
    prev,              \* the load_trail_data call of the operation before it
    cacheSrc,          \* history: the file version _data_cache was parsed from
    pc,                \* concurrent model: position of each thread in load_trail_data
    local              \* concurrent model: locals of each thread

vars == <<fileExists, fileContent, fileMtime, _data_cache, _cache_timestamp,
          result, prev, cacheSrc, pc, local>>

----------------------------------------------------------------------------
(* Bounds *)

MaxTime == 2        \* modification times are 1..MaxTime
MaxTrails == 2      \* eco_trails lists written to the file have at most this many elements
MaxTrailsQ == 2     \* the same, for the data files of the query model

----------------------------------------------------------------------------
(* Python values *)

None == [k |-> "None"]
Absent == [k |-> "absent"]
Num(n) == [k |-> "num", n |-> n]
Bool(b) == [k |-> "bool", n |-> IF b THEN 1 ELSE 0]
Str(s) == [k |-> "str", s |-> s]
List(xs) == [k |-> "list", xs |-> xs]
Float(t) == [k |-> "float", n |-> t]

\* the list objects load_trail_data returns: obj is the identity of the list
PyList(o, items) == [k |-> "list", obj |-> o, items |-> items]

\* truthiness of a value, as `not x` / `if x` test it
Truthy(v) ==
    CASE v.k \in {"absent", "None"} -> FALSE
      [] v.k \in {"num", "bool"} -> v.n # 0
      [] v.k = "str" -> v.s # <<>>
      [] v.k = "list" -> v.xs # <<>>
      [] OTHER -> TRUE

\* d.get(key, default) on a dict d whose missing keys are Absent
Get(d, key, default) == IF d[key].k = "absent" THEN default ELSE d[key]

\* d.get(key): the default is None
Get0(d, key) == Get(d, key, None)

----------------------------------------------------------------------------
(* str.lower(), str.strip(), and `a in b` on strings *)

\* the data and the queries use the upper-case letters R and E only
LowerChar(c) == IF c = "R" THEN "r" ELSE IF c = "E" THEN "e" ELSE c

Lower(s) == [i \in DOMAIN s |-> LowerChar(s[i])]

RECURSIVE LStrip(_)
LStrip(s) == IF s # <<>> /\ Head(s) = " " THEN LStrip(Tail(s)) ELSE s

RECURSIVE RStrip(_)
RStrip(s) ==
    IF s # <<>> /\ s[Len(s)] = " " THEN RStrip(SubSeq(s, 1, Len(s) - 1)) ELSE s

Strip(s) == RStrip(LStrip(s))

\* Python's `sub in s`
In(sub, s) ==
    \E i \in 0..(Len(s) - Len(sub)) : SubSeq(s, i + 1, i + Len(sub)) = sub

----------------------------------------------------------------------------
(* The shape of the data: dicts as json.load builds them.  Every key a      *)
(* function of the module looks up is a field; a key missing from the JSON  *)
(* object is Absent.                                                        *)

Coordinates(lat, lng) == [k |-> "dict", lat |-> lat, lng |-> lng]

Location(region, keywords, coordinates) ==
    [k |-> "dict", region |-> region, keywords |-> keywords,
     coordinates |-> coordinates]

Details(difficulty) == [k |-> "dict", difficulty |-> difficulty]

Trail(id, name, description, location, trail_details, best_season) ==
    [k |-> "dict", id |-> id, name |-> name, description |-> description,
     location |-> location, trail_details |-> trail_details,
     best_season |-> best_season, _loaded_at |-> Absent, _index |-> Absent]

\* the `{}` defaults of trail.get('location', {}), .get('coordinates', {}),
\* trail.get('trail_details', {})
EmptyLocation == Location(Absent, Absent, Absent)
EmptyCoordinates == Coordinates(Absent, Absent)
EmptyDetails == Details(Absent)

\* the top-level JSON object of the data file
TopLevel(eco_trails) == [k |-> "dict", eco_trails |-> eco_trails]

\* a file whose text is not JSON
BadText == [k |-> "text"]

\* no file
NoContent == [k |-> "nofile"]

----------------------------------------------------------------------------
(* load_trail_data *)

\* line 239: the cache is used when it is set and its timestamp is the file's
CacheHit_NeverHit(cache, ts, mtime) == FALSE

CacheHit_IgnoreTimestamp(cache, ts, mtime) == cache # None

CacheHit(cache, ts, mtime) == cache # None /\ ts = mtime

\* lines 259-267: the element is kept when it is a dict with a truthy id
Admitted_RequiresName(trail) ==
    /\ trail.k = "dict"
    /\ Truthy(Get0(trail, "id"))
    /\ Truthy(Get0(trail, "name"))

Admitted(trail) ==
    /\ trail.k = "dict"
    /\ Truthy(Get0(trail, "id"))

\* lines 274-275: the metadata written into the accepted dict; _loaded_at is
\* the wall clock's ISO string, of which only the presence is kept
Stamp(trail, index) ==
    [trail EXCEPT !._loaded_at = Str(<<"t">>), !._index = Num(index)]

\* lines 257-277: for index, trail in enumerate(eco_trails), from position
\* index on, validated_trails being acc so far
RECURSIVE ValidateFrom(_, _, _)
ValidateFrom(eco_trails, index, acc) ==
    IF index >= Len(eco_trails) THEN acc
    ELSE LET trail == eco_trails[index + 1] IN
         IF Admitted(trail)
         THEN ValidateFrom(eco_trails, index + 1,
                           Append(acc, Stamp(trail, index)))
         ELSE ValidateFrom(eco_trails, index + 1, acc)

validated_trails(eco_trails) == ValidateFrom(eco_trails, 0, <<>>)

\* lines 286-300: the except clauses of load_trail_data
Handled_NoValueError(exc) == exc \in {"FileNotFoundError", "JSONDecodeError"}

Handled(exc) ==
    exc \in {"FileNotFoundError", "JSONDecodeError", "ValueError", "Exception"}

\* lines 231-284: the try block.  o is the identity of the list object the
\* call creates if it creates one.  exc is the exception raised, "none" if
\* the block returns; read tells whether the file was opened and parsed.
TryBlock(exists, content, mtime, cache, ts, o) ==
    IF ~exists
    THEN [exc |-> "none", ret |-> PyList(o, <<>>), cache |-> cache, ts |-> ts,
          read |-> FALSE]
    ELSE IF CacheHit(cache, ts, Float(mtime))
    THEN [exc |-> "none", ret |-> cache, cache |-> cache, ts |-> ts,
          read |-> FALSE]
    ELSE IF content.k = "text"
    THEN [exc |-> "JSONDecodeError", ret |-> None, cache |-> cache, ts |-> ts,
          read |-> TRUE]
    ELSE IF content.k # "dict"
    THEN [exc |-> "ValueError", ret |-> None, cache |-> cache, ts |-> ts,
          read |-> TRUE]
    ELSE IF Get0(content, "eco_trails").k # "list"
    THEN [exc |-> "ValueError", ret |-> None, cache |-> cache, ts |-> ts,
          read |-> TRUE]
    ELSE LET v == PyList(o, validated_trails(content.eco_trails.xs)) IN
         [exc |-> "none", ret |-> v, cache |-> v, ts |-> Float(mtime),
          read |-> TRUE]

\* the whole call: what it returns or that it raised, whether it read the
\* file, the globals it leaves and whether it assigned them (lines 280-281)
load_trail_data(exists, content, mtime, cache, ts, o) ==
    LET b == TryBlock(exists, content, mtime, cache, ts, o) IN
    IF b.exc = "none"
    THEN [called |-> TRUE, raised |-> FALSE, ret |-> b.ret, read |-> b.read,
          cache |-> b.cache, ts |-> b.ts, stored |-> b.read]
    ELSE IF Handled(b.exc)
    THEN [called |-> TRUE, raised |-> FALSE, ret |-> PyList(o, <<>>),
          read |-> b.read, cache |-> b.cache, ts |-> b.ts, stored |-> FALSE]
    ELSE [called |-> TRUE, raised |-> TRUE, ret |-> None, read |-> b.read,
          cache |-> b.cache, ts |-> b.ts, stored |-> FALSE]

\* an operation that does not call load_trail_data
NoLoad == [called |-> FALSE]

\* what the caller keeps of a load_trail_data call
LoadInfo(l) ==
    [called |-> TRUE, raised |-> l.raised, ret |-> l.ret, read |-> l.read]

\* identity of the next list object: one that no live list has
FreshObj ==
    CHOOSE o \in 1..3 :
        /\ (_data_cache # None => o # _data_cache.obj)
        /\ (result.load.called /\ ~result.load.raised => o # result.load.ret.obj)

\* the load_trail_data call of the current state
CurLoad ==
    load_trail_data(fileExists, fileContent, fileMtime, _data_cache,
                    _cache_timestamp, FreshObj)

----------------------------------------------------------------------------
(* The query functions.  Each returns [raised, ret]; raised tells that an   *)
(* exception left the function, exc which one.                              *)

Returned(v) == [raised |-> FALSE, ret |-> v]
Raised(e) == [raised |-> TRUE, exc |-> e, ret |-> None]

\* isinstance(x, (int, float)): bool is a subclass of int
IsIntOrFloat(v) == v.k \in {"num", "bool"}

\* lines 316-340
_has_valid_coordinates(trail) ==
    LET location_info == Get(trail, "location", EmptyLocation) IN
    IF location_info.k # "dict" THEN FALSE      \* AttributeError, line 339
    ELSE LET coordinates == Get(location_info, "coordinates", EmptyCoordinates) IN
         IF coordinates.k # "dict" THEN FALSE
         ELSE LET latitude == Get0(coordinates, "lat")
                  longitude == Get0(coordinates, "lng")
              IN IF ~IsIntOrFloat(latitude) \/ ~IsIntOrFloat(longitude)
                 THEN FALSE
                 ELSE IF \/ ~(-90 <= latitude.n /\ latitude.n <= 90)
                         \/ ~(-180 <= longitude.n /\ longitude.n <= 180)
                 THEN FALSE
                 ELSE TRUE

\* line 89: any(normalized_query in keyword.lower() for keyword in xs), xs
\* the values the iteration yields: "true", "false" or the exception
RECURSIVE AnyKeyword(_, _)
AnyKeyword(q, xs) ==
    IF xs = <<>> THEN "false"
    ELSE IF Head(xs).k # "str" THEN "AttributeError"
    ELSE IF In(q, Lower(Head(xs).s)) THEN "true"
    ELSE AnyKeyword(q, Tail(xs))

\* what `for x in v` yields: the elements of a list, the characters of a
\* string; other values here are not iterable
Iterable(v) == v.k \in {"list", "str"}
Iterate(v) == IF v.k = "list" THEN v.xs ELSE [i \in DOMAIN v.s |-> Str(<<v.s[i]>>)]

\* lines 66-98, one pass of the loop body: "match" (appended), "skip"
\* (invalid coordinates), "next" (no field contains the query) or the
\* exception the body raises
SearchTrail(trail, q) ==
    IF ~_has_valid_coordinates(trail) THEN "skip"
    ELSE
    LET name == Get(trail, "name", Str(<<>>))
        description == Get(trail, "description", Str(<<>>))
        location == Get(trail, "location", EmptyLocation)
        trail_details == Get(trail, "trail_details", EmptyDetails)
    IN
    IF name.k # "str" THEN "AttributeError"
    ELSE IF In(q, Lower(name.s)) THEN "match"
    ELSE IF description.k # "str" THEN "AttributeError"
    ELSE IF In(q, Lower(description.s)) THEN "match"
    ELSE IF location.k # "dict" THEN "AttributeError"
    ELSE
    LET region == Get(location, "region", Str(<<>>))
        location_keywords == Get(location, "keywords", List(<<>>))
    IN
    IF region.k # "str" THEN "AttributeError"
    ELSE IF In(q, Lower(region.s)) THEN "match"
    ELSE IF ~Iterable(location_keywords) THEN "TypeError"
    ELSE
    LET any == AnyKeyword(q, Iterate(location_keywords)) IN
    IF any = "true" THEN "match"
    ELSE IF any # "false" THEN any
    ELSE IF trail_details.k # "dict" THEN "AttributeError"
    ELSE
    LET difficulty == Get(trail_details, "difficulty", Str(<<>>)) IN
    IF difficulty.k # "str" THEN "AttributeError"
    ELSE IF In(q, Lower(difficulty.s)) THEN "match"
    ELSE "next"

\* lines 62-101: the loop over trails_data
RECURSIVE SearchLoop(_, _, _)
SearchLoop(trails_data, q, matching_trails) ==
    IF trails_data = <<>> THEN Returned(matching_trails)
    ELSE LET trail == Head(trails_data)
             o == SearchTrail(trail, q)
         IN IF o = "match"
            THEN SearchLoop(Tail(trails_data), q, Append(matching_trails, trail))
            ELSE IF o \in {"skip", "next"}
            THEN SearchLoop(Tail(trails_data), q, matching_trails)
            ELSE Raised(o)

\* lines 49-56: the query is searched for when it is a non-empty string
\* that is not only whitespace
Searchable(query) ==
    /\ Truthy(query)
    /\ query.k = "str"
    /\ Strip(Lower(query.s)) # <<>>

\* lines 125-131
RECURSIVE FirstWithId(_, _)
FirstWithId(trails_data, trail_id) ==
    IF trails_data = <<>> THEN None
    ELSE IF Get0(Head(trails_data), "id") = trail_id THEN Head(trails_data)
    ELSE FirstWithId(Tail(trails_data), trail_id)

\* lines 511-513, one pass: "match", "next" or the exception
RegionTrail(trail, region_normalized) ==
    LET location == Get(trail, "location", EmptyLocation) IN
    IF location.k # "dict" THEN "AttributeError"
    ELSE LET trail_region == Get(location, "region", Str(<<>>)) IN
         IF trail_region.k # "str" THEN "AttributeError"
         ELSE IF In(region_normalized, Lower(trail_region.s)) THEN "match"
         ELSE "next"

\* lines 506-516
RECURSIVE RegionLoop(_, _, _)
RegionLoop(trails_data, region_normalized, region_trails) ==
    IF trails_data = <<>> THEN Returned(region_trails)
    ELSE LET trail == Head(trails_data)
             o == RegionTrail(trail, region_normalized)
         IN IF o = "match"
            THEN RegionLoop(Tail(trails_data), region_normalized,
                            Append(region_trails, trail))
            ELSE IF o = "next"
            THEN RegionLoop(Tail(trails_data), region_normalized, region_trails)
            ELSE Raised(o)

\* lines 502-516 after the load: region.lower() fails on a non-string
RegionBody(trails_data, region) ==
    IF region.k # "str" THEN Raised("AttributeError")
    ELSE RegionLoop(trails_data, Strip(Lower(region.s)), <<>>)

\* lines 173-175: `x.lower().strip() if x else None` and
\* `x.strip() if x else None`; "AttributeError" when x is truthy and not a string
NormalizeLower(x) ==
    IF ~Truthy(x) THEN None
    ELSE IF x.k # "str" THEN [k |-> "AttributeError"]
    ELSE Str(Strip(Lower(x.s)))

NormalizeStrip(x) ==
    IF ~Truthy(x) THEN None
    ELSE IF x.k # "str" THEN [k |-> "AttributeError"]
    ELSE Str(Strip(x.s))

\* lines 179-199, one pass of the loop body: matches_criteria or the exception
AdvancedTrail(trail, region_normalized, difficulty_normalized, season_normalized) ==
    LET location == Get(trail, "location", EmptyLocation)
        trail_details == Get(trail, "trail_details", EmptyDetails)
        trail_seasons == Get(trail, "best_season", List(<<>>))
        regionOut ==
            IF ~Truthy(region_normalized) THEN "match"
            ELSE IF location.k # "dict" THEN "AttributeError"
            ELSE IF Get(location, "region", Str(<<>>)).k # "str" THEN "AttributeError"
            ELSE IF In(region_normalized.s, Lower(Get(location, "region", Str(<<>>)).s))
            THEN "match" ELSE "next"
        difficultyOut ==
            IF ~Truthy(difficulty_normalized) THEN "match"
            ELSE IF trail_details.k # "dict" THEN "AttributeError"
            ELSE IF Get(trail_details, "difficulty", Str(<<>>)).k # "str"
            THEN "AttributeError"
            ELSE IF In(difficulty_normalized.s,
                       Lower(Get(trail_details, "difficulty", Str(<<>>)).s))
            THEN "match" ELSE "next"
        seasonOut ==
            IF ~Truthy(season_normalized) THEN "match"
            ELSE IF trail_seasons.k # "list" THEN "next"
            ELSE IF \E i \in DOMAIN trail_seasons.xs :
                        trail_seasons.xs[i] = season_normalized
            THEN "match" ELSE "next"
    IN IF regionOut # "match" THEN regionOut
       ELSE IF difficultyOut # "match" THEN difficultyOut
       ELSE seasonOut

\* lines 177-203: `for trail in iterated`, appending to filtered_trails
RECURSIVE AdvancedLoop(_, _, _, _, _)
AdvancedLoop(iterated, rn, dn, sn, filtered_trails) ==
    IF iterated = <<>> THEN Returned(filtered_trails)
    ELSE LET trail == Head(iterated)
             o == AdvancedTrail(trail, rn, dn, sn)
         IN IF o = "match"
            THEN AdvancedLoop(Tail(iterated), rn, dn, sn,
                              Append(filtered_trails, trail))
            ELSE IF o = "next"
            THEN AdvancedLoop(Tail(iterated), rn, dn, sn, filtered_trails)
            ELSE Raised(o)

\* lines 170-206 after the load: the loop at line 177 runs over
\* filtered_trails, the list created empty at line 170, not over trails_data
AdvancedBody(trails_data, region, difficulty, best_season) ==
    LET filtered_trails == <<>>
        region_normalized == NormalizeLower(region)
        difficulty_normalized == NormalizeLower(difficulty)
        season_normalized == NormalizeStrip(best_season)
    IN IF region_normalized.k = "AttributeError" THEN Raised("AttributeError")
       ELSE IF difficulty_normalized.k = "AttributeError" THEN Raised("AttributeError")
       ELSE IF season_normalized.k = "AttributeError" THEN Raised("AttributeError")
       ELSE AdvancedLoop(filtered_trails, region_normalized,
                         difficulty_normalized, season_normalized,
                         filtered_trails)

\* a dict of counts: counts[key] = counts.get(key, 0) + 1
EmptyCounts == [x \in {} |-> 0]

Inc(counts, key) ==
    IF key \in DOMAIN counts
    THEN [counts EXCEPT ![key] = @ + 1]
    ELSE [x \in DOMAIN counts \cup {key} |-> IF x = key THEN 1 ELSE counts[x]]

\* a value that can be a dict key
Hashable(v) == v.k \notin {"list", "dict"}

\* the defaults of lines 384 and 388
UnknownRegion == Str(<<"?", "r">>)
UnknownDifficulty == Str(<<"?", "d">>)

\* lines 394-395
RECURSIVE CountSeasons(_, _)
CountSeasons(seasons, season_counts) ==
    IF seasons = <<>> THEN Returned(season_counts)
    ELSE IF ~Hashable(Head(seasons)) THEN Raised("TypeError")
    ELSE CountSeasons(Tail(seasons), Inc(season_counts, Head(seasons)))

\* lines 382-395
RECURSIVE StatsLoop(_, _, _, _)
StatsLoop(trails_data, region_counts, difficulty_counts, season_counts) ==
    IF trails_data = <<>>
    THEN Returned([regions |-> region_counts,
                   difficulties |-> difficulty_counts,
                   seasons |-> season_counts])
    ELSE
    LET trail == Head(trails_data)
        location == Get(trail, "location", EmptyLocation)
        trail_details == Get(trail, "trail_details", EmptyDetails)
        trail_seasons == Get(trail, "best_season", List(<<>>))
    IN
    IF location.k # "dict" THEN Raised("AttributeError")
    ELSE IF ~Hashable(Get(location, "region", UnknownRegion))
    THEN Raised("TypeError")
    ELSE IF trail_details.k # "dict" THEN Raised("AttributeError")
    ELSE IF ~Hashable(Get(trail_details, "difficulty", UnknownDifficulty))
    THEN Raised("TypeError")
    ELSE
    LET rc == Inc(region_counts, Get(location, "region", UnknownRegion))
        dc == Inc(difficulty_counts,
                  Get(trail_details, "difficulty", UnknownDifficulty))
        sc == IF trail_seasons.k = "list"
              THEN CountSeasons(trail_seasons.xs, season_counts)
              ELSE Returned(season_counts)
    IN IF sc.raised THEN sc
       ELSE StatsLoop(Tail(trails_data), rc, dc, sc.ret)

\* lines 368-407 after the load; last_updated and cache_info are left out
StatsBody(trails_data) ==
    IF trails_data = <<>>
    THEN Returned([total_trails |-> 0, regions |-> EmptyCounts,
                   difficulties |-> EmptyCounts, seasons |-> EmptyCounts])
    ELSE LET c == StatsLoop(trails_data, EmptyCounts, EmptyCounts, EmptyCounts) IN
         IF c.raised THEN c
         ELSE Returned([total_trails |-> Len(trails_data),
                        regions |-> c.ret.regions,
                        difficulties |-> c.ret.difficulties,
                        seasons |-> c.ret.seasons])

----------------------------------------------------------------------------
(* Data the file can hold *)

SeqsUpTo(S, n) == UNION {[1..m -> S] : m \in 0..n}

BaseTrail ==
    Trail(Str(<<"a">>), Str(<<"R", "e">>), Str(<<"x">>),
          Location(Str(<<"R">>), List(<<Str(<<"k">>)>>),
                   Coordinates(Num(42), Num(23))),
          Details(Str(<<"E">>)), List(<<Str(<<"s">>)>>))

\* elements of eco_trails in the cache model: a non-object and two objects
\* with an id, the second without a name
SmallElems ==
    {Num(7),
     BaseTrail,
     [BaseTrail EXCEPT !.id = Str(<<"b">>), !.name = Absent]}

\* files that do not load: not JSON, a top level that is not an object, and
\* an object whose eco_trails is missing or is not a list
BadFiles == {BadText, List(<<>>), TopLevel(Absent), TopLevel(Str(<<"x">>))}

GoodFiles(elems, n) == {TopLevel(List(xs)) : xs \in SeqsUpTo(elems, n)}

\* files with an object whose id is missing, one whose id is null and one
\* whose id is empty
NoIdFiles ==
    {TopLevel(List(<<[BaseTrail EXCEPT !.id = Absent], BaseTrail>>)),
     TopLevel(List(<<[BaseTrail EXCEPT !.id = None]>>)),
     TopLevel(List(<<BaseTrail, [BaseTrail EXCEPT !.id = Str(<<>>)]>>))}

SmallFiles == BadFiles \cup NoIdFiles \cup GoodFiles(SmallElems, MaxTrails)

----------------------------------------------------------------------------
(* The sequential program: one operation at a time.  result is the outcome  *)
(* of the latest operation or file event, prev the load_trail_data call of  *)
(* the one before it.                                                       *)

Threads == {1, 2}

IdleLocal == [mtime |-> 0, trails |-> None, src |-> None, ret |-> None]

Init ==
    /\ fileExists = FALSE
    /\ fileContent = NoContent
    /\ fileMtime = 0
    /\ _data_cache = None
    /\ _cache_timestamp = None
    /\ result = [op |-> "start", load |-> NoLoad]
    /\ prev = NoLoad
    /\ cacheSrc = None
    /\ pc = [t \in Threads |-> "idle"]
    /\ local = [t \in Threads |-> IdleLocal]

\* the globals after the load_trail_data call l of an operation
Globals(l) ==
    /\ _data_cache' = l.cache
    /\ _cache_timestamp' = l.ts
    /\ cacheSrc' = IF l.stored
                   THEN [mtime |-> fileMtime, content |-> fileContent]
                   ELSE cacheSrc

\* the producer of eco.json writes a new version of the file
WriteFile(content) ==
    /\ fileMtime < MaxTime
    /\ fileExists' = TRUE
    /\ fileContent' = content
    /\ fileMtime' = fileMtime + 1
    /\ result' = [op |-> "write", load |-> NoLoad]
    /\ prev' = result.load
    /\ UNCHANGED <<_data_cache, _cache_timestamp, cacheSrc, pc, local>>

\* the file is removed
DeleteFile ==
    /\ fileExists
    /\ fileExists' = FALSE
    /\ fileContent' = NoContent
    /\ result' = [op |-> "delete", load |-> NoLoad]
    /\ prev' = result.load
    /\ UNCHANGED <<fileMtime, _data_cache, _cache_timestamp, cacheSrc, pc, local>>

\* lines 343-353
clear_data_cache ==
    /\ _data_cache' = None
    /\ _cache_timestamp' = None
    /\ cacheSrc' = None
    /\ result' = [op |-> "clear_data_cache", load |-> NoLoad]
    /\ prev' = result.load
    /\ UNCHANGED <<fileExists, fileContent, fileMtime, pc, local>>

\* a direct call of load_trail_data (lines 212-300)
Load ==
    LET l == CurLoad IN
    /\ Globals(l)
    /\ result' = [op |-> "load_trail_data", raised |-> l.raised,
                  ret |-> l.ret, load |-> LoadInfo(l)]
    /\ prev' = result.load
    /\ UNCHANGED <<fileExists, fileContent, fileMtime, pc, local>>

\* lines 134-143
list_all_trails ==
    LET l == CurLoad IN
    /\ Globals(l)
    /\ result' = [op |-> "list_all_trails", raised |-> l.raised,
                  ret |-> l.ret, load |-> LoadInfo(l)]
    /\ prev' = result.load
    /\ UNCHANGED <<fileExists, fileContent, fileMtime, pc, local>>

\* an operation that returns or raises before it loads anything
NoCall(op, arg, r) ==
    /\ result' = [op |-> op, arg |-> arg, raised |-> r.raised, ret |-> r.ret,
                  load |-> NoLoad]
    /\ prev' = result.load
    /\ UNCHANGED <<fileExists, fileContent, fileMtime, _data_cache,
                   _cache_timestamp, cacheSrc, pc, local>>

\* an operation whose load_trail_data call was l and whose outcome is r
WithLoad(op, arg, l, r) ==
    /\ Globals(l)
    /\ result' = [op |-> op, arg |-> arg, raised |-> r.raised, ret |-> r.ret,
                  load |-> LoadInfo(l)]
    /\ prev' = result.load
    /\ UNCHANGED <<fileExists, fileContent, fileMtime, pc, local>>

\* lines 32-101
search_trails(query) ==
    IF ~Searchable(query)
    THEN NoCall("search_trails", query, Returned(<<>>))
    ELSE LET l == CurLoad
             r == IF l.raised THEN Raised("load")
                  ELSE SearchLoop(l.ret.items, Strip(Lower(query.s)), <<>>)
         IN WithLoad("search_trails", query, l, r)

\* lines 104-131
get_trail_by_id(trail_id) ==
    IF ~Truthy(trail_id) \/ trail_id.k # "str"
    THEN NoCall("get_trail_by_id", trail_id, Returned(None))
    ELSE LET l == CurLoad
             r == IF l.raised THEN Raised("load")
                  ELSE Returned(FirstWithId(l.ret.items, trail_id))
         IN WithLoad("get_trail_by_id", trail_id, l, r)

\* lines 146-206
advanced_search(region, difficulty, best_season) ==
    LET l == CurLoad
        r == IF l.raised THEN Raised("load")
             ELSE AdvancedBody(l.ret.items, region, difficulty, best_season)
    IN WithLoad("advanced_search", <<region, difficulty, best_season>>, l, r)

\* lines 356-407
get_data_statistics ==
    LET l == CurLoad
        r == IF l.raised THEN Raised("load") ELSE StatsBody(l.ret.items)
    IN WithLoad("get_data_statistics", None, l, r)

\* lines 492-516
get_trails_by_region(region) ==
    IF ~Truthy(region)
    THEN NoCall("get_trails_by_region", region, Returned(<<>>))
    ELSE LET l == CurLoad
             r == IF l.raised THEN Raised("load")
                  ELSE RegionBody(l.ret.items, region)
         IN WithLoad("get_trails_by_region", region, l, r)

\* argument of the query functions in the cache model
SmallQueries == {Str(<<"r">>)}

Next ==
    \/ \E content \in SmallFiles : WriteFile(content)
    \/ DeleteFile
    \/ clear_data_cache
    \/ Load
    \/ list_all_trails
    \/ \E query \in SmallQueries : search_trails(query)
    \/ \E trail_id \in SmallQueries : get_trail_by_id(trail_id)
    \/ \E region \in SmallQueries : get_trails_by_region(region)
    \/ \E region \in SmallQueries : advanced_search(region, None, None)
    \/ get_data_statistics

Spec == Init /\ [][Next]_vars

----------------------------------------------------------------------------
(* Properties of the loader and its cache *)

\* the file is there and load_trail_data can build a collection from it
FileLoads ==
    /\ fileExists
    /\ fileContent.k = "dict"
    /\ Get0(fileContent, "eco_trails").k = "list"

\* two load_trail_data calls in a row, nothing in between
TwoLoads == prev.called /\ result.load.called

\* C1 as stated: of two consecutive load() calls with no file change and no
\* clearCache() between them, the second returns the identical collection
\* and does not read the file, whatever the state of the file.
C1_AsStated ==
    TwoLoads => /\ result.load.ret = prev.ret
                /\ ~result.load.read

\* C1 amended: the second call returns the identical collection without
\* reading when the file is present and loads; when the file is absent both
\* calls return equal empty sequences without reading; when the file is
\* present and does not load, the second call reads it again and returns a
\* new empty sequence.
C1_Idempotent ==
    TwoLoads =>
        /\ FileLoads => /\ result.load.ret = prev.ret
                        /\ ~result.load.read
        /\ ~fileExists => /\ result.load.ret.items = <<>>
                          /\ prev.ret.items = <<>>
                          /\ ~result.load.read
        /\ fileExists /\ ~FileLoads => /\ result.load.ret.items = <<>>
                                       /\ prev.ret.items = <<>>
                                       /\ result.load.ret.obj # prev.ret.obj
                                       /\ result.load.read

C1_Witness ==
    /\ TwoLoads
    /\ FileLoads
    /\ ~result.load.read
    /\ result.load.ret = prev.ret
    /\ result.load.ret.items # <<>>

\* a step that calls load_trail_data while the file's modification time
\* differs from the cached timestamp
StaleLoadStep ==
    /\ result'.load.called
    /\ fileExists
    /\ _cache_timestamp # Float(fileMtime)

\* C2 as stated: when the file's modification time differs from the cached
\* timestamp, the next load() reads the file, returns the collection built
\* from its content and stores it with the current timestamp.
C2_AsStated ==
    [][StaleLoadStep =>
          /\ result'.load.read
          /\ FileLoads
          /\ result'.load.ret.items = validated_trails(fileContent.eco_trails.xs)
          /\ _data_cache' = result'.load.ret
          /\ _cache_timestamp' = Float(fileMtime)]_vars

\* C2 amended: such a load() reads the file; if the file is an object whose
\* eco_trails is a list it returns the collection built from it and stores
\* it with the current timestamp, otherwise it returns an empty sequence
\* and leaves the cached collection and timestamp as they were.
C2_Invalidation ==
    [][StaleLoadStep =>
          /\ result'.load.read
          /\ FileLoads =>
                /\ result'.load.ret.items =
                       validated_trails(fileContent.eco_trails.xs)
                /\ _data_cache' = result'.load.ret
                /\ _cache_timestamp' = Float(fileMtime)
          /\ ~FileLoads =>
                /\ result'.load.ret.items = <<>>
                /\ _data_cache' = _data_cache
                /\ _cache_timestamp' = _cache_timestamp]_vars

\* a reload of a second or later version over a cache of an earlier one
C2_Witness ==
    /\ result.load.called
    /\ result.load.read
    /\ FileLoads
    /\ fileMtime >= 2
    /\ cacheSrc # None
    /\ cacheSrc.mtime = fileMtime
    /\ _data_cache = result.load.ret
    /\ result.load.ret.items # <<>>

HasId(e) ==
    /\ e.k = "dict"
    /\ e.id.k \notin {"absent", "None"}
    /\ e.id # Str(<<>>)

\* C10: the cached collection is the subsequence, in order, of the elements
\* of the eco_trails it was built from that are objects with a non-empty id,
\* whether or not they have a name, each with _index its position in
\* eco_trails, so that _index increases strictly along the collection.
C10_CacheIsAdmittedSubsequence ==
    _data_cache # None =>
        LET c == _data_cache.items
            e == cacheSrc.content.eco_trails.xs
        IN /\ \A i \in 1..Len(c) :
                  /\ c[i]._index.k = "num"
                  /\ c[i]._index.n \in 0..(Len(e) - 1)
                  /\ HasId(e[c[i]._index.n + 1])
                  /\ [c[i] EXCEPT !._index = Absent, !._loaded_at = Absent]
                         = e[c[i]._index.n + 1]
           /\ \A i, j \in 1..Len(c) : i < j => c[i]._index.n < c[j]._index.n
           /\ \A p \in 1..Len(e) :
                  HasId(e[p]) => \E i \in 1..Len(c) : c[i]._index.n = p - 1

\* a cache whose first record was second in the file and has no name
C10_Witness ==
    /\ _data_cache # None
    /\ Len(_data_cache.items) = 1
    /\ _data_cache.items[1]._index = Num(1)
    /\ _data_cache.items[1].name = Absent

----------------------------------------------------------------------------
(* The query model: the file holds one of the data sets below and is not    *)
(* changed; the operations are the query functions.                         *)

\* a second record, no field of which contains "r", "e" or "k"
OtherTrail ==
    Trail(Str(<<"b">>), Str(<<"z">>), Absent,
          Location(Str(<<"z">>), List(<<>>), Coordinates(Num(-90), Num(-180))),
          Details(Str(<<"z">>)), List(<<Str(<<"s">>), Str(<<"w">>)>>))

WithLocation(t, region, keywords, coordinates) ==
    [t EXCEPT !.location = Location(region, keywords, coordinates)]

\* variants of the two records in which one field is missing, null, of
\* another type or out of range
Variants ==
    {[BaseTrail EXCEPT !.name = v] : v \in {None, Num(1)}}
    \cup {[OtherTrail EXCEPT !.description = None]}
    \cup {[BaseTrail EXCEPT !.location = v] : v \in {Absent, None}}
    \cup {WithLocation(OtherTrail, v, List(<<>>), Coordinates(Num(1), Num(1))) :
              v \in {None, Str(<<"R">>)}}
    \cup {WithLocation(OtherTrail, Str(<<"z">>), v, Coordinates(Num(1), Num(1))) :
              v \in {None, Str(<<"k">>), List(<<Str(<<"k">>), Num(1)>>),
                     List(<<Num(1), Str(<<"k">>)>>)}}
    \cup {WithLocation(BaseTrail, Str(<<"R">>), List(<<>>), v) :
              v \in {Absent, Coordinates(Num(91), Num(0)),
                     Coordinates(Num(0), Num(181)),
                     Coordinates(Bool(TRUE), Bool(FALSE)),
                     Coordinates(Str(<<"4">>), Num(0))}}
    \cup {[OtherTrail EXCEPT !.trail_details = v] : v \in {Absent, None}}
    \cup {[OtherTrail EXCEPT !.trail_details = Details(v)] :
              v \in {None, Str(<<"E">>)}}
    \cup {[BaseTrail EXCEPT !.best_season = v] : v \in {Absent, None}}

\* elements that occur in any number and order: the two records, a record
\* without coordinates and an element that is not an object
CoreElems ==
    {BaseTrail, OtherTrail, Num(7),
     WithLocation(BaseTrail, Str(<<"R">>), List(<<>>), Absent)}

\* the data sets: the lists of core elements, and each variant alone, after
\* the first record and before the second
RichFiles ==
    GoodFiles(CoreElems, MaxTrailsQ)
    \cup {TopLevel(List(<<v>>)) : v \in Variants}
    \cup {TopLevel(List(<<BaseTrail, v>>)) : v \in Variants}
    \cup {TopLevel(List(<<v, OtherTrail>>)) : v \in Variants}

\* arguments: absent, a number, zero, the empty string, whitespace, and
\* strings in both cases and with surrounding whitespace
Queries ==
    {None, Num(5), Num(0), Str(<<>>), Str(<<" ">>), Str(<<"r">>),
     Str(<<" ", "R">>), Str(<<"E">>), Str(<<"k">>)}

Ids == {None, Num(5), Str(<<>>), Str(<<"a">>), Str(<<"b">>)}

Regions == {None, Num(5), Str(<<"R">>)}
Difficulties == {None, Str(<<"e">>)}
Seasons == {None, Num(5), Str(<<"s", " ">>)}

InitQ ==
    /\ fileExists = TRUE
    /\ fileContent \in RichFiles
    /\ fileMtime = 1
    /\ _data_cache = None
    /\ _cache_timestamp = None
    /\ result = [op |-> "start", load |-> NoLoad]
    /\ prev = NoLoad
    /\ cacheSrc = None
    /\ pc = [t \in Threads |-> "idle"]
    /\ local = [t \in Threads |-> IdleLocal]

NextQ ==
    \/ \E query \in Queries : search_trails(query)
    \/ \E trail_id \in Ids : get_trail_by_id(trail_id)
    \/ list_all_trails
    \/ \E region \in Queries : get_trails_by_region(region)
    \/ \E region \in Regions, difficulty \in Difficulties, best_season \in Seasons :
           advanced_search(region, difficulty, best_season)
    \/ get_data_statistics
    \/ clear_data_cache

SpecQ == InitQ /\ [][NextQ]_vars

----------------------------------------------------------------------------
(* Properties of the query functions *)

\* the collection the latest operation worked on
Loaded == result.load.ret.items

\* coordinates that are present, numeric and within bounds
CoordinatesValid(t) ==
    /\ t.location.k = "dict"
    /\ t.location.coordinates.k = "dict"
    /\ t.location.coordinates.lat.k = "num"
    /\ t.location.coordinates.lng.k = "num"
    /\ t.location.coordinates.lat.n \in -90..90
    /\ t.location.coordinates.lng.n \in -180..180

\* the field is a string whose lower-cased text contains q
FieldContains(v, q) == v.k = "str" /\ In(q, Lower(v.s))

\* name, description, region, some keyword or difficulty contains q
TextMatches(t, q) ==
    \/ FieldContains(t.name, q)
    \/ FieldContains(t.description, q)
    \/ /\ t.location.k = "dict"
       /\ \/ FieldContains(t.location.region, q)
          \/ /\ t.location.keywords.k = "list"
             /\ \E i \in DOMAIN t.location.keywords.xs :
                    FieldContains(t.location.keywords.xs[i], q)
    \/ /\ t.trail_details.k = "dict"
       /\ FieldContains(t.trail_details.difficulty, q)

\* C3: for a query string that is not empty after trimming, search returns,
\* in load order and once each, exactly the records with valid coordinates
\* of which some field contains the lower-cased trimmed query; a record
\* with missing, non-numeric or out-of-bounds coordinates is never returned;
\* an empty or whitespace-only query returns nothing.
C3_SearchCorrect ==
    (result.op = "search_trails" /\ result.arg.k = "str") =>
        /\ ~result.raised
        /\ IF Strip(result.arg.s) = <<>>
           THEN result.ret = <<>>
           ELSE LET q == Lower(Strip(result.arg.s))
                    Test(t) == CoordinatesValid(t) /\ TextMatches(t, q)
                IN result.ret = SelectSeq(Loaded, Test)

\* a criterion of advancedSearch: omitted, or a string
Criterion(x) == x = None \/ x.k = "str"

\* the record satisfies every criterion that is provided
SatisfiesAll(t, region, difficulty, season) ==
    /\ region # None =>
           /\ t.location.k = "dict"
           /\ FieldContains(t.location.region, Lower(region.s))
    /\ difficulty # None =>
           /\ t.trail_details.k = "dict"
           /\ FieldContains(t.trail_details.difficulty, Lower(difficulty.s))
    /\ season # None =>
           /\ t.best_season.k = "list"
           /\ \E i \in DOMAIN t.best_season.xs :
                  t.best_season.xs[i] = Str(Strip(season.s))

\* C4: advancedSearch returns exactly the loaded records that satisfy every
\* provided criterion; an omitted criterion does not restrict the result.
C4_AdvancedSearchCorrect ==
    (/\ result.op = "advanced_search"
     /\ \A i \in 1..3 : Criterion(result.arg[i])) =>
        /\ ~result.raised
        /\ LET Test(t) == SatisfiesAll(t, result.arg[1], result.arg[2],
                                       result.arg[3])
           IN result.ret = SelectSeq(Loaded, Test)

\* an argument that is absent, empty or not a string
BadShape(x) == x = None \/ x = Str(<<>>) \/ x.k # "str"

\* C6: search, getById, byRegion and advancedSearch called with an argument
\* that is absent, empty or not a string return the no-match result and do
\* not raise.
C6_NoRaiseOnArgumentShape ==
    /\ (result.op \in {"search_trails", "get_trails_by_region"}
            /\ BadShape(result.arg)) =>
           (~result.raised /\ result.ret = <<>>)
    /\ (result.op = "get_trail_by_id" /\ BadShape(result.arg)) =>
           (~result.raised /\ result.ret = None)
    /\ (result.op = "advanced_search"
            /\ \A i \in 1..3 : BadShape(result.arg[i])) =>
           (~result.raised /\ result.ret = <<>>)

\* C7: whatever the records the file holds, search, getById, listAll,
\* byRegion and statistics return a result and do not raise.
C7_NoRaiseOnFileContent ==
    /\ result.op \in {"list_all_trails", "get_data_statistics"} =>
           ~result.raised
    /\ (result.op \in {"search_trails", "get_trail_by_id",
                       "get_trails_by_region"}
            /\ ~BadShape(result.arg)) =>
           ~result.raised

RECURSIVE SumCounts(_)
SumCounts(counts) ==
    IF DOMAIN counts = {} THEN 0
    ELSE LET x == CHOOSE x \in DOMAIN counts : TRUE IN
         counts[x] + SumCounts([y \in DOMAIN counts \ {x} |-> counts[y]])

\* C8: statistics returns total_trails equal to the number of loaded
\* records and difficulty counts that sum to total_trails; for an empty
\* collection the total is 0 and the mappings are empty.
C8_StatisticsTotals ==
    result.op = "get_data_statistics" =>
        /\ ~result.raised
        /\ result.ret.total_trails = Len(Loaded)
        /\ SumCounts(result.ret.difficulties) = result.ret.total_trails
        /\ Loaded = <<>> =>
               /\ result.ret.total_trails = 0
               /\ result.ret.regions = EmptyCounts
               /\ result.ret.difficulties = EmptyCounts
               /\ result.ret.seasons = EmptyCounts

----------------------------------------------------------------------------
(* The concurrent model: two threads call load_trail_data and               *)
(* clear_data_cache without a lock, as the module has none.  A step is one  *)
(* read or write of a global or one file system call; pc[t] is the line     *)
(* thread t executes next and local[t] holds its local variables.           *)

ConcFiles ==
    {TopLevel(List(<<BaseTrail>>)), TopLevel(List(<<OtherTrail>>)), BadText}

\* thread t moves to position p with locals l, the globals unchanged
Goto(t, p, l) ==
    /\ pc' = [pc EXCEPT ![t] = p]
    /\ local' = [local EXCEPT ![t] = l]

\* thread t leaves load_trail_data returning v
Return(t, v) == Goto(t, "done", [local[t] EXCEPT !.ret = v])

FileUnchanged == UNCHANGED <<fileExists, fileContent, fileMtime>>
CacheUnchanged == UNCHANGED <<_data_cache, _cache_timestamp, cacheSrc>>

\* the call
T_Call(t) ==
    /\ pc[t] = "idle"
    /\ Goto(t, "exists", IdleLocal)
    /\ FileUnchanged /\ CacheUnchanged /\ UNCHANGED <<result, prev>>

\* lines 231-233
T_Exists(t) ==
    /\ pc[t] = "exists"
    /\ IF fileExists THEN Goto(t, "getmtime", local[t])
       ELSE Return(t, PyList(t, <<>>))
    /\ FileUnchanged /\ CacheUnchanged /\ UNCHANGED <<result, prev>>

\* line 236; FileNotFoundError (lines 286-288) if the file went away
T_GetMtime(t) ==
    /\ pc[t] = "getmtime"
    /\ IF fileExists
       THEN Goto(t, "check_cache", [local[t] EXCEPT !.mtime = fileMtime])
       ELSE Return(t, PyList(t, <<>>))
    /\ FileUnchanged /\ CacheUnchanged /\ UNCHANGED <<result, prev>>

\* line 239, left operand: _data_cache is not None
T_CheckCache(t) ==
    /\ pc[t] = "check_cache"
    /\ IF _data_cache # None THEN Goto(t, "check_timestamp", local[t])
       ELSE Goto(t, "read", local[t])
    /\ FileUnchanged /\ CacheUnchanged /\ UNCHANGED <<result, prev>>

\* line 239, right operand: _cache_timestamp == file_modification_time
T_CheckTimestamp(t) ==
    /\ pc[t] = "check_timestamp"
    /\ IF _cache_timestamp = Float(local[t].mtime)
       THEN Goto(t, "return_cache", local[t])
       ELSE Goto(t, "read", local[t])
    /\ FileUnchanged /\ CacheUnchanged /\ UNCHANGED <<result, prev>>

\* line 240: return _data_cache, whatever it holds by now
T_ReturnCache(t) ==
    /\ pc[t] = "return_cache"
    /\ Return(t, _data_cache)
    /\ FileUnchanged /\ CacheUnchanged /\ UNCHANGED <<result, prev>>

\* lines 245-277: open, json.load, the checks and the validation loop; the
\* exceptions end in the handlers of lines 286-300
T_Read(t) ==
    /\ pc[t] = "read"
    /\ IF ~fileExists \/ ~FileLoads
       THEN Return(t, PyList(t, <<>>))
       ELSE Goto(t, "store_cache",
                 [local[t] EXCEPT
                     !.trails = PyList(t, validated_trails(fileContent.eco_trails.xs)),
                     !.src = [mtime |-> fileMtime, content |-> fileContent]])
    /\ FileUnchanged /\ CacheUnchanged /\ UNCHANGED <<result, prev>>

\* line 280
T_StoreCache(t) ==
    /\ pc[t] = "store_cache"
    /\ _data_cache' = local[t].trails
    /\ cacheSrc' = local[t].src
    /\ Goto(t, "store_timestamp", local[t])
    /\ FileUnchanged /\ UNCHANGED <<_cache_timestamp, result, prev>>

\* lines 281-284
T_StoreTimestamp(t) ==
    /\ pc[t] = "store_timestamp"
    /\ _cache_timestamp' = Float(local[t].mtime)
    /\ Return(t, local[t].trails)
    /\ FileUnchanged /\ UNCHANGED <<_data_cache, cacheSrc, result, prev>>

\* the caller takes the returned value
T_Done(t) ==
    /\ pc[t] = "done"
    /\ Goto(t, "idle", IdleLocal)
    /\ FileUnchanged /\ CacheUnchanged /\ UNCHANGED <<result, prev>>

\* line 351
T_ClearCache(t) ==
    /\ pc[t] = "idle"
    /\ _data_cache' = None
    /\ cacheSrc' = None
    /\ Goto(t, "clear_timestamp", IdleLocal)
    /\ FileUnchanged /\ UNCHANGED <<_cache_timestamp, result, prev>>

\* line 352
T_ClearTimestamp(t) ==
    /\ pc[t] = "clear_timestamp"
    /\ _cache_timestamp' = None
    /\ Goto(t, "idle", IdleLocal)
    /\ FileUnchanged /\ UNCHANGED <<_data_cache, cacheSrc, result, prev>>

\* the file is written or removed while the threads run
C_WriteFile(content) ==
    /\ fileMtime < MaxTime
    /\ fileExists' = TRUE
    /\ fileContent' = content
    /\ fileMtime' = fileMtime + 1
    /\ CacheUnchanged /\ UNCHANGED <<result, prev, pc, local>>

C_DeleteFile ==
    /\ fileExists
    /\ fileExists' = FALSE
    /\ fileContent' = NoContent
    /\ CacheUnchanged /\ UNCHANGED <<fileMtime, result, prev, pc, local>>

NextC ==
    \/ \E content \in ConcFiles : C_WriteFile(content)
    \/ C_DeleteFile
    \/ \E t \in Threads :
          \/ T_Call(t)
          \/ T_Exists(t)
          \/ T_GetMtime(t)
          \/ T_CheckCache(t)
          \/ T_CheckTimestamp(t)
          \/ T_ReturnCache(t)
          \/ T_Read(t)
          \/ T_StoreCache(t)
          \/ T_StoreTimestamp(t)
          \/ T_Done(t)
          \/ T_ClearCache(t)
          \/ T_ClearTimestamp(t)

SpecC == Init /\ [][NextC]_vars

\* C9: under every interleaving of two load() calls, clearCache() and file
\* changes, a cache that a load() would hit (it is set and its timestamp is
\* the file's) holds the collection built from the file's current content.
C9_CacheCoherent ==
    (fileExists /\ _data_cache # None /\ _cache_timestamp = Float(fileMtime)) =>
        /\ FileLoads
        /\ _data_cache.items = validated_trails(fileContent.eco_trails.xs)

====
